---------------------------- MODULE Spec2Model ----------------------------
(***************************************************************************)
(* A model of the APOD plugin (src/plugins/apod/apod.py): the control flow *)
(* of Apod.generate_image, the date selection, the caption derivation, and *)
(* the image helpers resize_to_fit, fit_with_background and                *)
(* average_border_color, with the library calls they make (datetime,       *)
(* random.randint, requests.get, PIL.Image) modelled by what they do.      *)
(*                                                                         *)
(* Strings are TLA+ strings, except date strings, which are sequences of   *)
(* one-character strings so that formatting and parsing are computed.      *)
(* A dict is a function whose DOMAIN is the set of keys that are present.  *)
(***************************************************************************)
EXTENDS Integers, Sequences, FiniteSets, TLC

VARIABLES
    pc,          \* position of the one generate_image invocation
    settings,    \* the settings mapping passed in by the host
    env,         \* the host environment: dict of secrets (load_env_key)
    clock,       \* the host clock: what datetime.today() returns
    params,      \* local: query parameters of the metadata request
    requests,    \* every requests.get issued, in order
    response,    \* local: the metadata response
    image_url,   \* local: url chosen for the image download
    text,        \* local: the caption text
    heap,        \* PIL image objects by reference (0 is no object)
    image,       \* local: reference of the current image
    inky_res,    \* local: the resolution read from the device configuration
    bg,          \* local: background colour chosen for the canvas
    crops,       \* every crop box requested of PIL, with the size of its image
    result,      \* reference of the returned image (0: nothing returned)
    error,       \* message of the raised exception ("": none)
    call,        \* direct call of a static helper: its name and arguments
    ret          \* value returned by that call

vars == <<pc, settings, env, clock, params, requests, response, image_url,
          text, heap, image, inky_res, bg, crops, result, error, call, ret>>

-----------------------------------------------------------------------------
(* Bounds of the model. *)

\* the host clock ranges up to this many days after 2015-01-01
MaxDeltaDays == 430
\* largest width and height of a source image handed to the helpers
MaxSrcDim == 6
\* largest width and height of a target box
MaxTargetDim == 5
\* largest border thickness handed to average_border_color
MaxBorderPx == 3

-----------------------------------------------------------------------------
(* Python values. *)

Min(a, b) == IF a <= b THEN a ELSE b
Max(a, b) == IF a >= b THEN a ELSE b
Abs(a) == IF a >= 0 THEN a ELSE -a

\* d.get(k, default)
Get(d, k, default) == IF k \in DOMAIN d THEN d[k] ELSE default

\* bool(d.get(k)) for string values: absent (None) and empty are falsy
Truthy(d, k) == k \in DOMAIN d /\ Len(d[k]) > 0

-----------------------------------------------------------------------------
(* datetime: proleptic Gregorian ordinals as CPython computes them. *)

DAYS_IN_MONTH == <<31, 28, 31, 30, 31, 30, 31, 31, 30, 31, 30, 31>>
DAYS_BEFORE_MONTH == <<0, 31, 59, 90, 120, 151, 181, 212, 243, 273, 304, 334>>

is_leap(year) == year % 4 = 0 /\ (year % 100 # 0 \/ year % 400 = 0)

days_before_year(year) ==
    LET y == year - 1
    IN  y * 365 + (y \div 4) - (y \div 100) + (y \div 400)

days_in_month(year, month) ==
    IF month = 2 /\ is_leap(year) THEN 29 ELSE DAYS_IN_MONTH[month]

days_before_month(year, month) ==
    DAYS_BEFORE_MONTH[month] + (IF month > 2 /\ is_leap(year) THEN 1 ELSE 0)

\* date.toordinal()
ymd2ord(d) == days_before_year(d[1]) + days_before_month(d[1], d[2]) + d[3]

\* date.fromordinal(), the arithmetic of start + timedelta(days=...)
ord2ymd(ordinal) ==
    LET n0   == ordinal - 1
        n400 == n0 \div 146097
        r400 == n0 % 146097
        n100 == r400 \div 36524
        r100 == r400 % 36524
        n4   == r100 \div 1461
        r4   == r100 % 1461
        n1   == r4 \div 365
        n    == r4 % 365
        year == n400 * 400 + 1 + n100 * 100 + n4 * 4 + n1
        leapyear == n1 = 3 /\ (n4 # 24 \/ n100 = 3)
        leap(m)  == IF m > 2 /\ leapyear THEN 1 ELSE 0
        month0   == (n + 50) \div 32
        before0  == DAYS_BEFORE_MONTH[month0] + leap(month0)
        month    == IF before0 > n THEN month0 - 1 ELSE month0
        before   == IF before0 > n
                    THEN before0 - (DAYS_IN_MONTH[month]
                                    + (IF month = 2 /\ leapyear THEN 1 ELSE 0))
                    ELSE before0
    IN  IF n1 = 4 \/ n100 = 4
        THEN <<year - 1, 12, 31>>
        ELSE <<year, month, n - before + 1>>

\* datetime(2015, 1, 1)
start == <<2015, 1, 1>>

\* delta_days with the day of `end` counted in full
delta_days_counting_today(end) ==
    LET seconds == (ymd2ord(end.date) - ymd2ord(start)) * 86400 + end.seconds
    IN  (seconds \div 86400) + 1

\* (end - start).days; both are naive datetimes and start is at midnight, so
\* the seconds of `end` only add a non-negative remainder below one day
delta_days(end) ==
    LET seconds == (ymd2ord(end.date) - ymd2ord(start)) * 86400 + end.seconds
    IN  seconds \div 86400

DIGIT == <<"0", "1", "2", "3", "4", "5", "6", "7", "8", "9">>

RECURSIVE pow10(_)
pow10(k) == IF k = 0 THEN 1 ELSE 10 * pow10(k - 1)

\* zero-padded decimal, as %Y (4 wide), %m and %d (2 wide) print it
Pad(n, width) ==
    [i \in 1..width |-> DIGIT[((n \div pow10(width - i)) % 10) + 1]]

\* d.strftime("%Y-%m-%d")
strftime(d) == Pad(d[1], 4) \o <<"-">> \o Pad(d[2], 2) \o <<"-">> \o Pad(d[3], 2)

\* start + timedelta(days=offset), formatted
random_date(offset) == strftime(ord2ymd(ymd2ord(start) + offset))

-----------------------------------------------------------------------------
(* PIL images.  An image object is a record: its mode, its size <<w, h>>,  *)
(* its pixels (a function of <<x, y>>, each pixel a tuple with one value   *)
(* per band) and whether its file decodes (Image.open is lazy: the pixel   *)
(* data is decoded by the first load()).  Objects live in `heap`, a        *)
(* sequence indexed by reference.                                          *)

Bands(mode) == IF mode = "L" THEN 1 ELSE 3

Coords(size) == (0..(size[1] - 1)) \X (0..(size[2] - 1))

\* the output of the resampling filter, which the model does not compute:
\* a value outside the channel range 0..255
Resampled(mode) == [i \in 1..Bands(mode) |-> -1]

\* pixel conversion of Image.convert("RGB")
ToRGB(mode, p) == IF mode = "L" THEN <<p[1], p[1], p[1]>> ELSE p

\* img.convert("RGB")
convert(img) ==
    [img EXCEPT !.mode = "RGB",
                !.px = [c \in Coords(img.size) |-> ToRGB(img.mode, img.px[c])]]

\* Image.new("RGB", size, color)
new(size, color) ==
    [mode |-> "RGB", size |-> size, decodes |-> TRUE,
     px |-> [c \in Coords(size) |-> color], drawn |-> <<>>]

\* img.crop(box), box = <<left, upper, right, lower>>: the region is copied
\* and whatever lies outside the image is filled with zeros
crop(img, box) ==
    LET size == <<box[3] - box[1], box[4] - box[2]>>
    IN  [mode |-> img.mode, size |-> size, decodes |-> TRUE, drawn |-> <<>>,
         px |-> [c \in Coords(size) |->
                   LET s == <<box[1] + c[1], box[2] + c[2]>>
                   IN  IF s \in Coords(img.size)
                       THEN img.px[s]
                       ELSE [i \in 1..Bands(img.mode) |-> 0]]]

\* list(img.getdata()): the pixels row by row
getdata(img) ==
    LET w == img.size[1]
    IN  [i \in 1..(w * img.size[2]) |-> img.px[<<(i - 1) % w, (i - 1) \div w>>]]

\* canvas.paste(img, (x, y)): the region of the canvas that img covers takes
\* img's pixels (converted to the canvas mode), clipped to the canvas
paste(canvas, img, at) ==
    [canvas EXCEPT !.px =
        [c \in Coords(canvas.size) |->
            LET s == <<c[1] - at[1], c[2] - at[2]>>
            IN  IF s \in Coords(img.size)
                THEN ToRGB(img.mode, img.px[s])
                ELSE canvas.px[c]]]

-----------------------------------------------------------------------------
(* Image.thumbnail: the size it picks (Pillow's preserve_aspect_ratio, in  *)
(* exact arithmetic: aspect = w/h is kept as the pair w, h).               *)

\* round_aspect(y * aspect, key = |aspect - n / y|) for the width
round_aspect_x(w, h, y) ==
    LET lo == (y * w) \div h
        hi == IF (y * w) % h = 0 THEN lo ELSE lo + 1
        key(n) == Abs(w * y - n * h)
    IN  Max(IF key(hi) < key(lo) THEN hi ELSE lo, 1)

\* round_aspect(x / aspect, key = 0 if n == 0 else |aspect - x / n|) for the
\* height; the keys |w/h - x/lo| and |w/h - x/hi| are compared cross-multiplied
round_aspect_y(w, h, x) ==
    LET lo == (x * h) \div w
        hi == IF (x * h) % w = 0 THEN lo ELSE lo + 1
        hi_closer == lo # 0 /\ Abs(w * hi - x * h) * lo < Abs(w * lo - x * h) * hi
    IN  Max(IF hi_closer THEN hi ELSE lo, 1)

\* the size after img.thumbnail((x, y)) of an image of size <<w, h>>
thumbnail_size(size, target) ==
    LET w == size[1]
        h == size[2]
        x == target[1]
        y == target[2]
    IN  IF x >= w /\ y >= h
        THEN size
        ELSE IF x * h >= w * y
             THEN <<round_aspect_x(w, h, y), y>>
             ELSE <<x, round_aspect_y(w, h, x)>>

\* img.thumbnail(size, Image.LANCZOS): changes the object in place
thumbnail(h, ref, target) ==
    LET img  == h[ref]
        size == thumbnail_size(img.size, target)
    IN  IF size = img.size
        THEN h
        ELSE [h EXCEPT ![ref] =
                [img EXCEPT !.size = size,
                            !.px = [c \in Coords(size) |-> Resampled(img.mode)]]]

\* img.copy(): a new object with the same content
copy(h, ref) == [heap |-> Append(h, h[ref]), ref |-> Len(h) + 1]

\* resize_to_fit without the copy: the thumbnail is taken of img itself
resize_to_fit_in_place(h, img, target_size) ==
    [heap |-> thumbnail(h, img, target_size), ref |-> img]

\* Apod.resize_to_fit(img, target_size): the heap afterwards and the
\* reference it returns
resize_to_fit(h, img, target_size) ==
    LET c == copy(h, img)
    IN  [heap |-> thumbnail(c.heap, c.ref, target_size), ref |-> c.ref]

\* paste_offset rounding the half up
paste_offset_rounded_up(target_size, size) ==
    <<(target_size[1] - size[1] + 1) \div 2, (target_size[2] - size[2] + 1) \div 2>>

\* the paste position computed by fit_with_background
paste_offset(target_size, size) ==
    <<(target_size[1] - size[1]) \div 2, (target_size[2] - size[2]) \div 2>>

\* Apod.fit_with_background(img, target_size, background)
fit_with_background(h, img, target_size, background) ==
    LET r       == resize_to_fit(h, img, target_size)
        resized == r.heap[r.ref]
        canvas  == new(target_size, background)
        at      == paste_offset(target_size, resized.size)
    IN  [heap |-> Append(r.heap, paste(canvas, resized, at)),
         ref  |-> Len(r.heap) + 1]

-----------------------------------------------------------------------------
(* Apod.average_border_color. *)

\* border_boxes with the columns cut between the rows already taken, so that
\* no corner is sampled twice
border_boxes_corners_once(size, border_px) ==
    LET w == size[1]
        h == size[2]
        rows == [i \in 1..(2 * border_px) |->
                    LET y == (i - 1) \div 2
                    IN  IF i % 2 = 1
                        THEN <<0, y, w, y + 1>>
                        ELSE <<0, h - y - 1, w, h - y>>]
        cols == [i \in 1..(2 * border_px) |->
                    LET x == (i - 1) \div 2
                    IN  IF i % 2 = 1
                        THEN <<x, border_px, x + 1, h - border_px>>
                        ELSE <<w - x - 1, border_px, w - x, h - border_px>>]
    IN  rows \o cols

\* the crop boxes the two loops request, in order: for each y the row y from
\* the top and the row y from the bottom, then for each x the column x from
\* the left and the column x from the right
border_boxes(size, border_px) ==
    LET w == size[1]
        h == size[2]
        rows == [i \in 1..(2 * border_px) |->
                    LET y == (i - 1) \div 2
                    IN  IF i % 2 = 1
                        THEN <<0, y, w, y + 1>>
                        ELSE <<0, h - y - 1, w, h - y>>]
        cols == [i \in 1..(2 * border_px) |->
                    LET x == (i - 1) \div 2
                    IN  IF i % 2 = 1
                        THEN <<x, 0, x + 1, h>>
                        ELSE <<w - x - 1, 0, w - x, h>>]
    IN  rows \o cols

\* pixels.extend(img.crop(box).getdata()) for the first k boxes
RECURSIVE extend(_, _, _)
extend(img, boxes, k) ==
    IF k = 0
    THEN <<>>
    ELSE extend(img, boxes, k - 1) \o getdata(crop(img, boxes[k]))

\* the sum of channel c over pixels[lo..hi], by halves
RECURSIVE channel_sum(_, _, _, _)
channel_sum(pixels, c, lo, hi) ==
    IF lo > hi
    THEN 0
    ELSE IF lo = hi
         THEN pixels[lo][c]
         ELSE LET mid == (lo + hi) \div 2
              IN  channel_sum(pixels, c, lo, mid) + channel_sum(pixels, c, mid + 1, hi)

\* int(q) of the quotient num / den, den > 0: rounds toward zero
int(num, den) == IF num >= 0 THEN num \div den ELSE -((-num) \div den)

\* tuple(map(int, np.mean(pixels, axis=0)))
int_mean(pixels) ==
    [c \in 1..3 |-> int(channel_sum(pixels, c, 1, Len(pixels)), Len(pixels))]

\* Apod.average_border_color(img, border_px)
average_border_color(img, border_px) ==
    LET rgb == convert(img)
    IN  int_mean(extend(rgb, border_boxes(rgb.size, border_px),
                        4 * border_px))

\* the crop requests that call makes, each with the size of the image cropped
crop_requests(img, border_px) ==
    LET boxes == border_boxes(img.size, border_px)
    IN  [i \in 1..Len(boxes) |-> [box |-> boxes[i], size |-> img.size]]

\* border_px: int = 10
DefaultBorderPx == 10

-----------------------------------------------------------------------------
(* The inputs of generate_image. *)

\* None, where a string is expected: a string no input contains
None == "<None>"

\* d.get(k) == v
Is(d, k, v) == k \in DOMAIN d /\ d[k] = v

\* the dict without keys
Empty == [k \in {} |-> ""]

\* the dicts that leave key k out or give it one of the values
Opt(k, values) == {Empty} \cup {k :> v : v \in values}

\* a customDate that is no calendar date: it is passed on as it is
CustomDate == <<"2", "0", "2", "4", "-", "0", "2", "-", "3", "0">>

Settings ==
    {r @@ c @@ a @@ b : r \in Opt("randomizeApod", {"true", "false"}),
                        c \in Opt("customDate", {<<>>, CustomDate}),
                        a \in Opt("autoResize", {"true"}),
                        b \in Opt("autoBgColor", {"true"})}

Envs == Opt("NASA_SECRET", {"", "DEMO_KEY"})

\* a datetime: the date <<year, month, day>> and the seconds since midnight
Clock(ordinal, seconds) == [date |-> ord2ymd(ordinal), seconds |-> seconds]

\* clocks from 2014-12-31 to MaxDeltaDays days after 2015-01-01
Clocks ==
    {Clock(ymd2ord(start) + d, s) : d \in (-1)..MaxDeltaDays, s \in {0, 86399}}

\* the clocks generate_image is run under: the day before the start date
\* and the day after it
ClockSample ==
    {Clock(ymd2ord(start) + d, 43200) : d \in {-1, 1}}

APOD_URL == "https://api.nasa.gov/planetary/apod"

\* the bodies of a metadata response with status 200
Bodies ==
    {m @@ h @@ u @@ t @@ c :
        m \in Opt("media_type", {"image", "video"}),
        h \in Opt("hdurl", {"", "https://apod.nasa.gov/hd.jpg"}),
        u \in Opt("url", {"https://apod.nasa.gov/sd.jpg"}),
        t \in Opt("title", {"", "Galaxy"}),
        c \in Opt("copyright", {"", "NASA"})}

\* what requests.get may return for the metadata request
Responses ==
    {[status_code |-> 200, valid_json |-> TRUE, json |-> b] : b \in Bodies}
    \cup {[status_code |-> 200, valid_json |-> FALSE, json |-> Empty]}
    \cup {[status_code |-> 403, valid_json |-> TRUE, json |-> Empty]}

NoResponse == [status_code |-> 0, valid_json |-> FALSE, json |-> Empty]

PALETTE == <<<<255, 0, 10>>, <<0, 128, 7>>, <<254, 255, 1>>>>

\* an image of the given mode and size whose pixel <<x, y>> takes the palette
\* entry (a*x + b*y) mod 3, for pattern = <<a, b>>
MkImage(mode, size, pattern, decodes) ==
    [mode |-> mode, size |-> size, decodes |-> decodes, drawn |-> <<>>,
     px |-> [c \in Coords(size) |->
               LET p == PALETTE[((pattern[1] * c[1] + pattern[2] * c[2]) % 3) + 1]
               IN  IF mode = "L" THEN <<p[1]>> ELSE p]]

Patterns == {<<0, 0>>, <<1, 0>>, <<1, 1>>, <<1, 2>>}

\* what Image.open may return for the downloaded bytes
FetchedImages ==
    {MkImage("RGB", <<2, 1>>, <<1, 2>>, TRUE),
     MkImage("RGB", <<3, 5>>, <<1, 2>>, TRUE),
     MkImage("L", <<5, 2>>, <<1, 2>>, TRUE),
     MkImage("RGB", <<3, 5>>, <<1, 2>>, FALSE)}

\* device_config.config.get('resolution')
Resolutions == {<<4, 3>>, <<2, 4>>}

\* the size font metrics give the caption: nothing for the empty text
TextSizes(t) == IF t = "" THEN {<<0, 0>>} ELSE {<<7, 3>>}

\* padding = 15
padding == 15

-----------------------------------------------------------------------------
(* Apod.generate_image, one step per stretch of code between two points    *)
(* where the outcome depends on the outside (the clock, the network, the   *)
(* decoder).  An exception ends the invocation: pc = "done" and error set. *)

\* device_config.load_env_key(name): the value, or None
load_env_key(e, name) == Get(e, name, None)

\* not_ as a test for None alone: an empty string passes
not_is_none(value) == value = None

\* `not value` for a string or None
not_(value) == value = None \/ value = ""

\* date_branch with the explicit date taking precedence over randomize
date_branch_custom_first(st) ==
    IF Truthy(st, "customDate")
    THEN "custom"
    ELSE IF Is(st, "randomizeApod", "true") THEN "random" ELSE "none"

\* lines 39-46: which branch sets the date parameter
date_branch(st) ==
    IF Is(st, "randomizeApod", "true")
    THEN "random"
    ELSE IF Truthy(st, "customDate") THEN "custom" ELSE "none"

\* is_image with a missing media_type taken for an image
is_image_by_default(data) == Get(data, "media_type", "image") = "image"

\* line 56: data.get("media_type") != "image" is false
is_image(data) == Is(data, "media_type", "image")

raise(message) ==
    /\ error' = message
    /\ pc' = "done"

\* lines 33-37: load the key
LoadKey ==
    /\ pc = "load_key"
    /\ IF not_(load_env_key(env, "NASA_SECRET"))
       THEN /\ raise("NASA API Key not configured.")
            /\ UNCHANGED params
       ELSE /\ params' = ("api_key" :> env["NASA_SECRET"])
            /\ pc' = "select_date"
            /\ UNCHANGED error
    /\ UNCHANGED <<settings, env, clock, requests, response, image_url, text,
                   heap, image, inky_res, bg, crops, result, call, ret>>

\* lines 39-46: the date parameter
SelectDate ==
    /\ pc = "select_date"
    /\ IF date_branch(settings) = "random"
       THEN IF delta_days(clock) < 0
            THEN \* randint(0, delta_days) with an empty range
                 /\ raise("empty range for randrange()")
                 /\ UNCHANGED params
            ELSE \E offset \in 0..delta_days(clock) :
                    /\ params' = ("date" :> random_date(offset)) @@ params
                    /\ pc' = "get_metadata"
                    /\ UNCHANGED error
       ELSE /\ IF date_branch(settings) = "custom"
               THEN params' = ("date" :> settings["customDate"]) @@ params
               ELSE UNCHANGED params
            /\ pc' = "get_metadata"
            /\ UNCHANGED error
    /\ UNCHANGED <<settings, env, clock, requests, response, image_url, text,
                   heap, image, inky_res, bg, crops, result, call, ret>>

\* line 48: the metadata request and what comes back
GetMetadata ==
    /\ pc = "get_metadata"
    /\ requests' = Append(requests, [url |-> APOD_URL, params |-> params])
    /\ \/ /\ raise("ConnectionError")
          /\ UNCHANGED response
       \/ /\ response' \in Responses
          /\ pc' = "check_metadata"
          /\ UNCHANGED error
    /\ UNCHANGED <<settings, env, clock, params, image_url, text, heap, image,
                   inky_res, bg, crops, result, call, ret>>

\* data.get("hdurl") or data.get("url")
hdurl_or_url(data) ==
    IF Truthy(data, "hdurl") THEN data["hdurl"] ELSE Get(data, "url", None)

\* caption with the copyright appended whenever it is present
caption_always_parenthesised(data) ==
    LET image_title     == Get(data, "title", "")
        image_copyright == Get(data, "copyright", "")
    IN  IF image_copyright # ""
        THEN image_title \o " (© " \o image_copyright \o ")"
        ELSE image_title

\* lines 60-70: the caption text
caption(data) ==
    LET image_title     == Get(data, "title", "")
        image_copyright == Get(data, "copyright", "")
    IN  IF image_title # "" /\ image_copyright # ""
        THEN image_title \o " (© " \o image_copyright \o ")"
        ELSE IF image_title # ""
             THEN image_title
             ELSE IF image_copyright # ""
                  THEN "© " \o image_copyright
                  ELSE ""

\* lines 50-70: check the response, pick the url, build the caption
CheckMetadata ==
    /\ pc = "check_metadata"
    /\ IF response.status_code # 200
       THEN /\ raise("Failed to retrieve NASA APOD.")
            /\ UNCHANGED <<image_url, text>>
       ELSE IF ~response.valid_json
            THEN /\ raise("JSONDecodeError")
                 /\ UNCHANGED <<image_url, text>>
            ELSE IF ~is_image(response.json)
                 THEN /\ raise("APOD is not an image today.")
                      /\ UNCHANGED <<image_url, text>>
                 ELSE /\ image_url' = hdurl_or_url(response.json)
                      /\ text' = caption(response.json)
                      /\ pc' = "get_image"
                      /\ UNCHANGED error
    /\ UNCHANGED <<settings, env, clock, params, requests, response, heap,
                   image, inky_res, bg, crops, result, call, ret>>

\* lines 72-77: download and open the image; every exception in the try
\* block becomes the same RuntimeError.  requests.get rejects a url without
\* a scheme (None, "") before anything is sent.
GetImage ==
    /\ pc = "get_image"
    /\ IF not_(image_url)
       THEN /\ raise("Failed to load APOD image.")
            /\ UNCHANGED <<requests, heap, image>>
       ELSE /\ requests' = Append(requests, [url |-> image_url, params |-> Empty])
            /\ \/ \* the connection fails, or the bytes are no image
                  /\ raise("Failed to load APOD image.")
                  /\ UNCHANGED <<heap, image>>
               \/ \E img \in FetchedImages :
                     /\ heap' = <<img>>
                     /\ image' = 1
                     /\ pc' = "resize"
                     /\ UNCHANGED error
    /\ UNCHANGED <<settings, env, clock, params, response, image_url, text,
                   inky_res, bg, crops, result, call, ret>>

\* choose_bg with the border average taken whatever autoBgColor says
choose_bg_always_average(st, img) == average_border_color(img, DefaultBorderPx)

\* lines 81-84: the background of the canvas
choose_bg(st, img) ==
    IF Is(st, "autoBgColor", "true")
    THEN average_border_color(img, DefaultBorderPx)
    ELSE <<0, 0, 0>>

\* lines 79-91: the optional resize onto a canvas.  convert() and copy()
\* load the pixel data, which fails for a file that does not decode.
Resize ==
    /\ pc = "resize"
    /\ IF Is(settings, "autoResize", "true")
       THEN IF ~heap[image].decodes
            THEN /\ raise("OSError")
                 /\ UNCHANGED <<heap, image, inky_res, bg, crops>>
            ELSE \E res \in Resolutions :
                    LET auto == Is(settings, "autoBgColor", "true")
                        b == choose_bg(settings, heap[image])
                        r == fit_with_background(heap, image, res, b)
                    IN  /\ inky_res' = res
                        /\ bg' = b
                        /\ crops' = IF auto
                                    THEN crops \o crop_requests(heap[image], DefaultBorderPx)
                                    ELSE crops
                        /\ heap' = r.heap
                        /\ image' = r.ref
                        /\ pc' = "caption"
                        /\ UNCHANGED error
       ELSE /\ pc' = "caption"
            /\ UNCHANGED <<heap, image, inky_res, bg, crops, error>>
    /\ UNCHANGED <<settings, env, clock, params, requests, response, image_url,
                   text, result, call, ret>>

\* draw.text((x, y), text, font=font, fill="white") on the image
draw_text(img, size) ==
    [img EXCEPT !.drawn = Append(@, [text |-> text,
                                     xy   |-> <<img.size[1] - size[1] - padding,
                                                img.size[2] - size[2] - padding>>,
                                     fill |-> "white"])]

\* lines 93-115: draw the caption and return the image.  ImageDraw.Draw
\* loads the pixel data; a font that is missing is replaced by the default.
Caption ==
    /\ pc = "caption"
    /\ IF ~heap[image].decodes
       THEN /\ raise("OSError")
            /\ UNCHANGED <<heap, result>>
       ELSE \E size \in TextSizes(text) :
               /\ heap' = [heap EXCEPT ![image] = draw_text(@, size)]
               /\ result' = image
               /\ pc' = "done"
               /\ UNCHANGED error
    /\ UNCHANGED <<settings, env, clock, params, requests, response, image_url,
                   text, image, inky_res, bg, crops, call, ret>>

generate_image ==
    \/ LoadKey
    \/ SelectDate
    \/ GetMetadata
    \/ CheckMetadata
    \/ GetImage
    \/ Resize
    \/ Caption

\* the locals before the invocation has set them
Locals ==
    /\ requests = <<>>
    /\ response = NoResponse
    /\ image_url = None
    /\ text = ""
    /\ inky_res = <<0, 0>>
    /\ bg = <<0, 0, 0>>
    /\ crops = <<>>
    /\ result = 0
    /\ error = ""
    /\ ret = <<>>

NoCall == [fn |-> "", target_size |-> <<0, 0>>, background |-> <<0, 0, 0>>,
           border_px |-> 0]

Init ==
    /\ pc = "load_key"
    /\ settings \in Settings
    /\ env \in Envs
    /\ clock \in ClockSample
    /\ call = NoCall
    /\ params = Empty
    /\ heap = <<>>
    /\ image = 0
    /\ Locals

Next == generate_image

Spec == Init /\ [][Next]_vars

-----------------------------------------------------------------------------
(* The date selection on its own, over every clock up to the bound and     *)
(* every draw of randint: the invocation stands after the key was loaded.  *)

InitDate ==
    /\ pc = "select_date"
    /\ settings = ("randomizeApod" :> "true")
    /\ env = ("NASA_SECRET" :> "DEMO_KEY")
    /\ clock \in Clocks
    /\ call = NoCall
    /\ params = ("api_key" :> env["NASA_SECRET"])
    /\ heap = <<>>
    /\ image = 0
    /\ Locals

NextDate == SelectDate

SpecDate == InitDate /\ [][NextDate]_vars

-----------------------------------------------------------------------------
(* The static helpers called directly, on every image and argument up to   *)
(* the bounds.                                                             *)

Dims(n) == (1..n) \X (1..n)

SourceImages ==
    {MkImage(m, s, p, TRUE) : m \in {"RGB", "L"}, s \in Dims(MaxSrcDim), p \in Patterns}

Backgrounds == {<<255, 255, 255>>, <<12, 0, 200>>}

Calls ==
    {[fn |-> "resize_to_fit", target_size |-> t, background |-> <<0, 0, 0>>,
      border_px |-> 0] : t \in Dims(MaxTargetDim)}
    \cup {[fn |-> "fit_with_background", target_size |-> t, background |-> b,
           border_px |-> 0] : t \in Dims(MaxTargetDim), b \in Backgrounds}
    \cup {[fn |-> "average_border_color", target_size |-> <<0, 0>>,
           background |-> <<0, 0, 0>>, border_px |-> b] : b \in 1..MaxBorderPx}

CallResizeToFit ==
    /\ pc = "call"
    /\ call.fn = "resize_to_fit"
    /\ LET r == resize_to_fit(heap, image, call.target_size)
       IN  /\ heap' = r.heap
           /\ ret' = r.ref
    /\ pc' = "returned"
    /\ UNCHANGED <<settings, env, clock, params, requests, response, image_url,
                   text, image, inky_res, bg, crops, result, error, call>>

CallFitWithBackground ==
    /\ pc = "call"
    /\ call.fn = "fit_with_background"
    /\ LET r == fit_with_background(heap, image, call.target_size, call.background)
       IN  /\ heap' = r.heap
           /\ ret' = r.ref
    /\ pc' = "returned"
    /\ UNCHANGED <<settings, env, clock, params, requests, response, image_url,
                   text, image, inky_res, bg, crops, result, error, call>>

CallAverageBorderColor ==
    /\ pc = "call"
    /\ call.fn = "average_border_color"
    /\ ret' = average_border_color(heap[image], call.border_px)
    /\ crops' = crops \o crop_requests(heap[image], call.border_px)
    /\ pc' = "returned"
    /\ UNCHANGED <<settings, env, clock, params, requests, response, image_url,
                   text, heap, image, inky_res, bg, result, error, call>>

InitHelpers ==
    /\ pc = "call"
    /\ settings = Empty
    /\ env = Empty
    /\ clock = Clock(ymd2ord(start), 0)
    /\ call \in Calls
    /\ params = Empty
    /\ Locals
    /\ \E img \in SourceImages : heap = <<img>>
    /\ image = 1

NextHelpers ==
    \/ CallResizeToFit
    \/ CallFitWithBackground
    \/ CallAverageBorderColor

SpecHelpers == InitHelpers /\ [][NextHelpers]_vars

-----------------------------------------------------------------------------
(* Claims about generate_image (specification Spec). *)

\* the metadata response has been checked
Checked == pc \in {"get_image", "resize", "caption", "done"} /\ response # NoResponse

\* the requests issued to the metadata endpoint, and the others
MetadataRequests == {i \in 1..Len(requests) : requests[i].url = APOD_URL}
ImageRequests == {i \in 1..Len(requests) : requests[i].url # APOD_URL}

\* the invocation has ended by raising / by returning an image
Raised == pc = "done" /\ error # "" /\ result = 0
Returned == pc = "done" /\ error = "" /\ result # 0

\* C1: once a status-200 metadata response whose media_type is not "image"
\* (or is absent) has been checked, the invocation has failed with an error
\* and the only request ever issued is the metadata request: no image
\* download precedes or follows the failure.
C1_NonImageFailsBeforeDownload ==
    (/\ Checked
     /\ response.status_code = 200
     /\ response.valid_json
     /\ ~("media_type" \in DOMAIN response.json
          /\ response.json["media_type"] = "image"))
    => /\ Raised
       /\ error = "APOD is not an image today."
       /\ ImageRequests = {}
       /\ Len(requests) = 1
       /\ heap = <<>>

C1_Witness ==
    /\ pc = "done"
    /\ response.status_code = 200
    /\ response.valid_json
    /\ "media_type" \notin DOMAIN response.json
    /\ "hdurl" \in DOMAIN response.json
    /\ error = "APOD is not an image today."

\* C2: in every state of an invocation at most one metadata request and at
\* most one image request have been issued, the metadata request first; an
\* image request only after a metadata response with status 200 and media
\* kind image; none at all when NASA_SECRET is absent or empty; no image
\* request when the status is not 200; and an invocation that ends either
\* returned an image or raised an error with nothing returned, never both.
C2_FailuresTerminalNoRetry ==
    /\ Cardinality(MetadataRequests) <= 1
    /\ Cardinality(ImageRequests) <= 1
    /\ Len(requests) >= 1 => requests[1].url = APOD_URL
    /\ ImageRequests # {} =>
          /\ response.status_code = 200
          /\ response.valid_json
          /\ "media_type" \in DOMAIN response.json
          /\ response.json["media_type"] = "image"
    /\ ("NASA_SECRET" \notin DOMAIN env \/ env["NASA_SECRET"] = "") =>
          /\ requests = <<>>
          /\ pc # "load_key" => Raised
    /\ (response # NoResponse /\ response.status_code # 200) =>
          /\ ImageRequests = {}
          /\ pc # "check_metadata" => Raised
    /\ pc = "done" => (Raised \/ Returned)
    /\ error # "" => Raised
    /\ result # 0 => Returned

C2_Witness ==
    /\ Raised
    /\ error = "Failed to load APOD image."
    /\ Len(requests) = 2

\* the dates randint can lead to under the clock
RandomDates == {random_date(o) : o \in 0..delta_days(clock)}

\* C3: the parameters of the metadata request hold api_key, and hold as date
\* the generated date when randomizeApod is "true" (whatever customDate is),
\* else exactly the customDate string when it is present and non-empty, else
\* no date key at all.
C3_DatePriority ==
    Len(requests) >= 1 =>
        LET sent == requests[1].params
            randomize == "randomizeApod" \in DOMAIN settings
                         /\ settings["randomizeApod"] = "true"
            custom == "customDate" \in DOMAIN settings
                      /\ settings["customDate"] # <<>>
        IN  /\ "api_key" \in DOMAIN sent
            /\ sent["api_key"] = env["NASA_SECRET"]
            /\ DOMAIN sent \subseteq {"api_key", "date"}
            /\ IF randomize
               THEN "date" \in DOMAIN sent /\ sent["date"] \in RandomDates
               ELSE IF custom
                    THEN "date" \in DOMAIN sent
                         /\ sent["date"] = settings["customDate"]
                    ELSE "date" \notin DOMAIN sent

C3_Witness ==
    /\ Len(requests) >= 1
    /\ Is(settings, "randomizeApod", "true")
    /\ Is(settings, "customDate", CustomDate)
    /\ requests[1].params["date"] = <<"2", "0", "1", "5", "-", "0", "1", "-", "0", "2">>

\* C9: the caption is decided by which of title and copyright are present
\* and non-empty: both give "{title} (© {copyright})", the title alone gives
\* the title, the copyright alone gives "© {copyright}", neither gives "";
\* and whatever the caption, the empty one included, an image that was
\* fetched and decodes is returned with that caption drawn, with no error.
C9_CaptionText ==
    Checked /\ is_image(response.json) =>
        LET data   == response.json
            hasT   == "title" \in DOMAIN data /\ data["title"] # ""
            hasC   == "copyright" \in DOMAIN data /\ data["copyright"] # ""
        IN  /\ (hasT /\ hasC)   => text = "Galaxy (© NASA)"
            /\ (hasT /\ ~hasC)  => text = "Galaxy"
            /\ (~hasT /\ hasC)  => text = "© NASA"
            /\ (~hasT /\ ~hasC) => text = ""
            /\ (pc = "done" /\ heap # <<>> /\ heap[1].decodes) =>
                  /\ Returned
                  /\ Len(heap[result].drawn) = 1
                  /\ heap[result].drawn[1].text = text

C9_Witness ==
    /\ Returned
    /\ text = ""
    /\ "title" \in DOMAIN response.json
    /\ "copyright" \notin DOMAIN response.json
    /\ heap[result].drawn[1].text = ""

\* C10: a returned image has the display resolution when autoResize is
\* "true" and the fetched image's own size otherwise; when resizing, the
\* background is the border average of the fetched image if autoBgColor is
\* "true" and black otherwise, and it fills the canvas around the picture;
\* without autoResize the fetched object itself is returned, no border is
\* sampled and no background chosen, whatever autoBgColor says.
C10_OutputSize ==
    Returned =>
        LET fetched == heap[1]
            resize == "autoResize" \in DOMAIN settings
                      /\ settings["autoResize"] = "true"
            auto == "autoBgColor" \in DOMAIN settings
                    /\ settings["autoBgColor"] = "true"
        IN  IF resize
            THEN /\ inky_res \in Resolutions
                 /\ heap[result].size = inky_res
                 /\ result # 1
                 /\ fetched.drawn = <<>>
                 /\ auto => bg = average_border_color(fetched, DefaultBorderPx)
                 /\ ~auto => bg = <<0, 0, 0>> /\ crops = <<>>
                 /\ \E c \in Coords(inky_res) : heap[result].px[c] = bg
                 /\ \A c \in Coords(inky_res) :
                       heap[result].px[c] = bg
                       \/ heap[result].px[c] = Resampled("RGB")
                       \/ \E s \in Coords(fetched.size) :
                             heap[result].px[c] = ToRGB(fetched.mode, fetched.px[s])
            ELSE /\ result = 1
                 /\ Len(heap) = 1
                 /\ heap[result].size \in {img.size : img \in FetchedImages}
                 /\ heap[result].px \in {img.px : img \in FetchedImages}
                 /\ crops = <<>>
                 /\ bg = <<0, 0, 0>>
                 /\ inky_res = <<0, 0>>

C10_Witness ==
    /\ Returned
    /\ Is(settings, "autoResize", "true")
    /\ Is(settings, "autoBgColor", "true")
    /\ heap[1].size = <<3, 5>>
    /\ heap[result].size = <<4, 3>>
    /\ bg # <<0, 0, 0>>

-----------------------------------------------------------------------------
(* Claims about the date selection (specification SpecDate).  The calendar *)
(* used to judge the date string is written out here on its own.           *)

IsDigit(ch) == \E d \in 0..9 : DIGIT[d + 1] = ch
DigitOf(ch) == CHOOSE d \in 0..9 : DIGIT[d + 1] = ch

\* the string has the shape YYYY-MM-DD
WellFormed(s) ==
    /\ Len(s) = 10
    /\ s[5] = "-"
    /\ s[8] = "-"
    /\ \A i \in {1, 2, 3, 4, 6, 7, 9, 10} : IsDigit(s[i])

\* the <<year, month, day>> the string denotes
Parsed(s) ==
    <<1000 * DigitOf(s[1]) + 100 * DigitOf(s[2]) + 10 * DigitOf(s[3]) + DigitOf(s[4]),
      10 * DigitOf(s[6]) + DigitOf(s[7]),
      10 * DigitOf(s[9]) + DigitOf(s[10])>>

MonthLength(y, m) ==
    IF m \in {4, 6, 9, 11}
    THEN 30
    ELSE IF m # 2
         THEN 31
         ELSE IF (y % 4 = 0 /\ y % 100 # 0) \/ y % 400 = 0 THEN 29 ELSE 28

ValidDate(d) == d[2] \in 1..12 /\ d[3] \in 1..MonthLength(d[1], d[2])

\* a is not after b
DateLE(a, b) ==
    \/ a[1] < b[1]
    \/ a[1] = b[1] /\ a[2] < b[2]
    \/ a[1] = b[1] /\ a[2] = b[2] /\ a[3] <= b[3]

\* the days from 2015-01-01 to the first of month m of year y, month by month
RECURSIVE DaysToMonth(_, _)
DaysToMonth(y, m) ==
    IF y = 2015 /\ m = 1
    THEN 0
    ELSE LET py == IF m = 1 THEN y - 1 ELSE y
             pm == IF m = 1 THEN 12 ELSE m - 1
         IN  DaysToMonth(py, pm) + MonthLength(py, pm)

\* the days from 2015-01-01 to d, for d not before it
DaysSinceStart(d) == DaysToMonth(d[1], d[2]) + d[3] - 1

\* C4: with randomizeApod "true", whatever randint draws, the date parameter
\* is a string YYYY-MM-DD that denotes a valid calendar date, not before
\* 2015-01-01 and not after the clock's date: 2015-01-01 plus a whole number
\* of days between 0 and the days from 2015-01-01 to today, inclusive.  A
\* clock before 2015-01-01 gives no date: the draw fails.
C4_RandomDateInRange ==
    /\ pc = "get_metadata" =>
          /\ "date" \in DOMAIN params
          /\ WellFormed(params["date"])
          /\ LET d == Parsed(params["date"])
             IN  /\ ValidDate(d)
                 /\ DateLE(<<2015, 1, 1>>, d)
                 /\ DateLE(d, clock.date)
                 /\ DaysSinceStart(d) \in 0..DaysSinceStart(clock.date)
    /\ pc = "done" => (error # "" /\ DateLE(clock.date, <<2014, 12, 31>>))

\* the draw reaches the clock's date, here a 29 February
C4_Witness ==
    /\ pc = "get_metadata"
    /\ clock.date = <<2016, 2, 29>>
    /\ params["date"] = <<"2", "0", "1", "6", "-", "0", "2", "-", "2", "9">>

\* the draw reaches the start date under a later clock
C4_WitnessStart ==
    /\ pc = "get_metadata"
    /\ clock.date = <<2016, 3, 1>>
    /\ params["date"] = <<"2", "0", "1", "5", "-", "0", "1", "-", "0", "1">>

-----------------------------------------------------------------------------
(* Claims about the static helpers (specification SpecHelpers). *)

ReturnedFrom(fn) == pc = "returned" /\ call.fn = fn

\* C5: fit_with_background returns an RGB image of exactly the target size;
\* the resized picture lies in it at <<(W - rw) \div 2, (H - rh) \div 2>>,
\* both offsets >= 0 and the picture wholly inside; the left (top) margin is
\* never larger than the right (bottom) one and smaller by at most one; every
\* pixel inside the rectangle is the picture's and every pixel outside it has
\* the background colour.
C5_FitWithBackground ==
    ReturnedFrom("fit_with_background") =>
        LET canvas  == heap[ret]
            resized == heap[2]
            W  == call.target_size[1]
            H  == call.target_size[2]
            rw == resized.size[1]
            rh == resized.size[2]
            x0 == (W - rw) \div 2
            y0 == (H - rh) \div 2
        IN  /\ Len(heap) = 3 /\ ret = 3
            /\ canvas.size = <<W, H>>
            /\ canvas.mode = "RGB"
            /\ DOMAIN canvas.px = (0..(W - 1)) \X (0..(H - 1))
            /\ x0 >= 0 /\ y0 >= 0
            /\ x0 + rw <= W /\ y0 + rh <= H
            /\ (W - rw - x0) - x0 \in {0, 1}
            /\ (H - rh - y0) - y0 \in {0, 1}
            /\ \A c \in DOMAIN canvas.px :
                  IF /\ x0 <= c[1] /\ c[1] < x0 + rw
                     /\ y0 <= c[2] /\ c[2] < y0 + rh
                  THEN canvas.px[c] =
                          ToRGB(resized.mode, resized.px[<<c[1] - x0, c[2] - y0>>])
                  ELSE canvas.px[c] = call.background

C5_Witness ==
    /\ ReturnedFrom("fit_with_background")
    /\ heap[1].size = <<6, 3>>
    /\ call.target_size = <<5, 4>>
    /\ heap[2].size = <<5, 3>>
    /\ heap[ret].px[<<0, 0>>] = Resampled("RGB")
    /\ heap[ret].px[<<4, 3>>] = call.background

\* C6: a call of resize_to_fit on an image of size <<w, h>> with a target
\* <<W, H>> returns a new image object of size <<rw, rh>> with rw <= W,
\* rh <= H, rw <= w, rh <= h, both at least 1; a source that fits the box
\* keeps its size and its pixels; rw : rh is w : h to within one pixel in one
\* of the two dimensions; and the object passed in is as it was.
C6_ResizeToFit ==
    [][(pc = "call" /\ call.fn = "resize_to_fit") =>
          LET src == heap[image]
              out == heap'[ret']
              w  == src.size[1]
              h  == src.size[2]
              W  == call.target_size[1]
              H  == call.target_size[2]
              rw == out.size[1]
              rh == out.size[2]
          IN  /\ rw <= W /\ rh <= H
              /\ rw <= w /\ rh <= h
              /\ rw >= 1 /\ rh >= 1
              /\ (w <= W /\ h <= H) => (out.size = src.size /\ out.px = src.px)
              /\ \/ Abs(rw * h - rh * w) < h
                 \/ Abs(rw * h - rh * w) < w
              /\ DOMAIN out.px = (0..(rw - 1)) \X (0..(rh - 1))
              /\ ret' # image
              /\ heap'[image] = src]_vars

C6_Witness ==
    /\ ReturnedFrom("resize_to_fit")
    /\ heap[1].size = <<6, 4>>
    /\ call.target_size = <<5, 5>>
    /\ heap[ret].size = <<5, 3>>

\* how many of the four border strips of thickness b hold the pixel <<x, y>>
Strips(size, b, c) ==
    (IF c[2] < b THEN 1 ELSE 0) + (IF c[2] >= size[2] - b THEN 1 ELSE 0)
    + (IF c[1] < b THEN 1 ELSE 0) + (IF c[1] >= size[1] - b THEN 1 ELSE 0)

\* the sum over the first k pixels (row by row) of weight times channel ch,
\* the weight being the number of strips that hold the pixel
RECURSIVE StripSum(_, _, _, _)
StripSum(img, b, ch, k) ==
    IF k = 0
    THEN 0
    ELSE LET c == <<(k - 1) % img.size[1], (k - 1) \div img.size[1]>>
             v == IF img.mode = "L" THEN img.px[c][1] ELSE img.px[c][ch]
         IN  StripSum(img, b, ch, k - 1) + Strips(img.size, b, c) * v

RECURSIVE StripCount(_, _, _)
StripCount(size, b, k) ==
    IF k = 0
    THEN 0
    ELSE StripCount(size, b, k - 1)
         + Strips(size, b, <<(k - 1) % size[1], (k - 1) \div size[1]>>)

\* C7: for an image of size w x h and a border thickness b with
\* 0 < b <= min(w, h) / 2, average_border_color returns three integers in
\* 0..255, each the mean, rounded toward zero, of that channel over the top
\* b rows, the bottom b rows, the left b columns and the right b columns, a
\* pixel counted once for every strip that holds it: 2*b*w + 2*b*h samples.
C7_BorderMean ==
    (/\ ReturnedFrom("average_border_color")
     /\ 0 < call.border_px
     /\ 2 * call.border_px <= Min(heap[image].size[1], heap[image].size[2]))
    => LET img == heap[image]
           b   == call.border_px
           n   == img.size[1] * img.size[2]
           samples == 2 * b * img.size[1] + 2 * b * img.size[2]
       IN  /\ StripCount(img.size, b, n) = samples
           /\ Len(crops) = 4 * b
           /\ DOMAIN ret = 1..3
           /\ \A ch \in 1..3 :
                 /\ ret[ch] \in 0..255
                 /\ ret[ch] * samples <= StripSum(img, b, ch, n)
                 /\ StripSum(img, b, ch, n) < (ret[ch] + 1) * samples

C7_Witness ==
    /\ ReturnedFrom("average_border_color")
    /\ call.border_px = 2
    /\ heap[image].size = <<5, 4>>
    /\ heap[image].mode = "RGB"
    /\ StripSum(heap[image], 2, 1, 20) % 36 # 0
    /\ ret[1] # ret[2]

\* C8: every crop that average_border_color requests lies inside the image
\* it is taken from: rows within 0..h and columns within 0..w, also when the
\* image is smaller than twice the border thickness.
C8_CropsInBounds ==
    \A i \in 1..Len(crops) :
        LET box == crops[i].box
            w == crops[i].size[1]
            h == crops[i].size[2]
        IN  /\ 0 <= box[1] /\ box[1] < box[3] /\ box[3] <= w
            /\ 0 <= box[2] /\ box[2] < box[4] /\ box[4] <= h

=============================================================================
